---- MODULE Spec2Model ----
(***************************************************************************)
(* A model of invite_contributors.py: the post-publish plugin that invites *)
(* the contributors of the triggering pull request to an organization.     *)
(*                                                                         *)
(* Python values are represented as follows.                               *)
(*   str (logins, messages)  a sequence of one-character strings           *)
(*   opaque names (sha, org) a TLA+ string                                 *)
(*   Optional[T]             <<>> for None, <<v>> for a value v            *)
(*   dict (JSON object)      a function whose domain is the set of keys    *)
(*   list                    a sequence                                    *)
(***************************************************************************)
EXTENDS Naturals, Sequences, FiniteSets

VARIABLES
    config,                 \* self.config (InviteContributorsConfig)
    event_data,             \* self._event_data: Optional[dict]
    repository,             \* the remote repository: [organization: Optional]
    remote_pr,              \* the remote pull request: [user, commits]
    pc,                     \* position of post_publish
    pulls,                  \* Optional: the result of commit.get_pulls()
    pull_request,           \* self.pull_request: Optional[PullRequest]
    contributors,           \* result of _get_pr_contributors
    contributors_to_invite, \* result of _filter_contributors
    organization,           \* Optional[Organization] resolved by the run
    team,                   \* Optional[Team] resolved by the run
    idx,                    \* position of the for loop in the invite list
    user,                   \* Optional[NamedUser] resolved for the current login
    calls,                  \* remote calls issued so far, in order
    notices,                \* lines printed so far, in order
    error                   \* Optional: the exception post_publish ended with

vars == <<config, event_data, repository, remote_pr, pc, pulls, pull_request,
          contributors, contributors_to_invite, organization, team, idx,
          user, calls, notices, error>>

-----------------------------------------------------------------------------
(* Bounds of the model.                                                    *)

\* Longest list of pull requests the remote associates with a commit.
MaxPulls == 2

\* Longest commit sequence of a pull request drawn by SpecResolve.
MaxCommits == 2

-----------------------------------------------------------------------------
(* Python str: sequences of characters, compared by code point.            *)

Lower ==
    <<"a","b","c","d","e","f","g","h","i","j","k","l","m",
      "n","o","p","q","r","s","t","u","v","w","x","y","z">>

\* ord(c) for the characters the model uses.
Ord(c) ==
    CASE c = "\t" -> 9
      [] c = "\n" -> 10
      [] c = " "  -> 32
      [] c = "-"  -> 45
      [] c = ":"  -> 58
      [] c = "<"  -> 60
      [] c = ">"  -> 62
      [] c = "@"  -> 64
      [] c = "C"  -> 67
      [] c = "["  -> 91
      [] c = "]"  -> 93
      [] OTHER    -> 96 + (CHOOSE i \in 1..Len(Lower) : Lower[i] = c)

\* a < b for two str values (lexicographic by code point; a proper prefix
\* is smaller).
StrLess(a, b) ==
    \E i \in 1..(Len(b)) :
        /\ \A j \in 1..(i - 1) : j <= Len(a) /\ a[j] = b[j]
        /\ \/ i = Len(a) + 1
           \/ i <= Len(a) /\ Ord(a[i]) < Ord(b[i])

\* s.startswith(prefix)
StartsWith(s, prefix) ==
    /\ Len(prefix) <= Len(s)
    /\ SubSeq(s, 1, Len(prefix)) = prefix

\* s.endswith(suffix)
EndsWith(s, suffix) ==
    /\ Len(suffix) <= Len(s)
    /\ SubSeq(s, Len(s) - Len(suffix) + 1, Len(s)) = suffix

\* The whitespace characters of the model's alphabet (str.strip()).
Whitespace == {" ", "\t", "\n"}

\* A line boundary of str.splitlines() in the model's alphabet.
IsLineBreak(c) == c = "\n"

\* Position of the first character of s satisfying none of the skipped
\* characters, or Len(s) + 1.
RECURSIVE LStripFrom(_, _, _)
LStripFrom(s, chars, i) ==
    IF i <= Len(s) /\ s[i] \in chars
    THEN LStripFrom(s, chars, i + 1)
    ELSE i

RECURSIVE RStripFrom(_, _, _)
RStripFrom(s, chars, i) ==
    IF i >= 1 /\ s[i] \in chars
    THEN RStripFrom(s, chars, i - 1)
    ELSE i

\* s.lstrip(chars): every leading character that is in chars is removed.
LStrip(s, chars) == SubSeq(s, LStripFrom(s, chars, 1), Len(s))

\* s.strip(): leading and trailing whitespace removed.
Strip(s) ==
    LET l == LStripFrom(s, Whitespace, 1)
        r == RStripFrom(s, Whitespace, Len(s))
    IN  SubSeq(s, l, r)

\* Index of the first occurrence of character c in s, or 0.
Find(s, c) ==
    IF \E i \in 1..Len(s) : s[i] = c
    THEN CHOOSE i \in 1..Len(s) : s[i] = c /\ \A j \in 1..(i - 1) : s[j] # c
    ELSE 0

\* s.split(c, 1)[0]
SplitHead(s, c) ==
    IF Find(s, c) = 0 THEN s ELSE SubSeq(s, 1, Find(s, c) - 1)

\* s.split(c, 1)[1], for s containing c
SplitTail(s, c) == SubSeq(s, Find(s, c) + 1, Len(s))

\* s.splitlines()
RECURSIVE SplitLines(_)
SplitLines(s) ==
    IF s = <<>> THEN <<>>
    ELSE IF \E i \in 1..Len(s) : IsLineBreak(s[i])
         THEN LET i == CHOOSE k \in 1..Len(s) :
                           /\ IsLineBreak(s[k])
                           /\ \A j \in 1..(k - 1) : ~IsLineBreak(s[j])
              IN  <<SubSeq(s, 1, i - 1)>> \o SplitLines(SubSeq(s, i + 1, Len(s)))
         ELSE <<s>>

\* sorted(S) for a set of str.
RECURSIVE Sorted(_)
Sorted(S) ==
    IF S = {} THEN <<>>
    ELSE LET m == CHOOSE x \in S : \A y \in S \ {x} : StrLess(x, y)
         IN  <<m>> \o Sorted(S \ {m})

\* The elements of a sequence.
Range(s) == {s[i] : i \in 1..Len(s)}

-----------------------------------------------------------------------------
(* The str values the model draws its inputs from.                         *)

S_alice == <<"a","l","i","c","e">>
S_bob == <<"b","o","b">>
S_carol == <<"c","a","r","o","l">>
S_dave == <<"d","a","v","e">>
S_ci_bot == <<"c","i","[","b","o","t","]">>
S_dependabot == <<"d","e","p","e","n","d","a","b","o","t">>
S_dependabot_bot == <<"d","e","p","e","n","d","a","b","o","t","[","b","o","t","]">>
S_dependabot_preview == <<"d","e","p","e","n","d","a","b","o","t","-","p","r","e","v","i","e","w">>
S_dependabot_preview_bot == <<"d","e","p","e","n","d","a","b","o","t","-","p","r","e","v","i","e","w","[","b","o","t","]">>

\* "[bot]", the suffix tested by _filter_contributors.
BotSuffix == <<"[","b","o","t","]">>

\* "Co-authored-by:", the prefix tested by _get_pr_contributors.
CoAuthoredBy == <<"C","o","-","a","u","t","h","o","r","e","d","-","b","y",":">>

KNOWN_BOT_EXCLUSIONS ==
    <<S_dependabot_preview_bot, S_dependabot_preview, S_dependabot,
      S_dependabot_bot>>

-----------------------------------------------------------------------------
(* InviteContributorsConfig.                                               *)

Roles == {"direct_member", "admin", "billing_manager"}

\* The default configuration (every field at its default).
DefaultConfig ==
    [organization       |-> <<>>,
     team_slug          |-> <<>>,
     role               |-> "direct_member",
     skip_bots          |-> TRUE,
     include_co_authors |-> TRUE,
     exclude_users      |-> KNOWN_BOT_EXCLUSIONS,
     dry_run            |-> FALSE]

\* The configurations a run is drawn from.
Configs ==
    [organization       : {<<>>, <<"acme">>},
     team_slug          : {<<>>, <<"core">>},
     role               : Roles,
     skip_bots          : BOOLEAN,
     include_co_authors : BOOLEAN,
     exclude_users      : {KNOWN_BOT_EXCLUSIONS, <<>>},
     dry_run            : BOOLEAN]

\* Truthiness of an Optional[str] given as <<>> or <<name>>.
TruthyName(o) == o # <<>> /\ o[1] # ""

-----------------------------------------------------------------------------
(* _get_pr_contributors and _filter_contributors.                          *)

\* Lines 124-125: the login a "Co-authored-by:" line names (possibly "").
TrailerLogin(line) ==
    LET trailer_value == Strip(SplitTail(line, ":"))
    IN  LStrip(SplitHead(trailer_value, " "), {"@"})

\* Lines 120-128: the logins the lines of one commit message add.
RECURSIVE LinesCoAuthors(_)
LinesCoAuthors(lines) ==
    IF lines = <<>> THEN {}
    ELSE LET line  == Head(lines)
             login == TrailerLogin(line)
         IN  (IF StartsWith(line, CoAuthoredBy) /\ login # <<>>
              THEN {login} ELSE {})
             \cup LinesCoAuthors(Tail(lines))

\* CommitContributors without the truthiness test of author.login at line
\* 116: the login of an author without one is added as an empty value.
CommitContributors_NoLoginCheck(commit, cfg) ==
    (IF commit.author # <<>>
     THEN {IF commit.author[1].login # <<>>
           THEN commit.author[1].login[1] ELSE <<>>}
     ELSE {})
    \cup
    (IF cfg.include_co_authors
     THEN LinesCoAuthors(SplitLines(commit.message)) ELSE {})

\* Lines 115-128: the logins one commit adds.  A commit is
\* [author: Optional[[login: Optional[str]]], message: str].
CommitContributors(commit, cfg) ==
    (IF /\ commit.author # <<>>
        /\ commit.author[1].login # <<>>
        /\ commit.author[1].login[1] # <<>>
     THEN {commit.author[1].login[1]} ELSE {})
    \cup
    (IF cfg.include_co_authors
     THEN LinesCoAuthors(SplitLines(commit.message)) ELSE {})

\* The loop over pr.get_commits() adding the logins of the last commit only.
CommitsContributors_LastOnly(commits, cfg, acc) ==
    IF commits = <<>> THEN acc
    ELSE acc \cup CommitContributors(commits[Len(commits)], cfg)

\* Lines 114-128: the loop over pr.get_commits().
RECURSIVE CommitsContributors(_, _, _)
CommitsContributors(commits, cfg, acc) ==
    IF commits = <<>> THEN acc
    ELSE CommitsContributors(Tail(commits), cfg,
                             acc \cup CommitContributors(Head(commits), cfg))

\* _get_pr_contributors(pr)
GetPrContributors(pr, cfg) ==
    CommitsContributors(pr.commits, cfg, {pr.user.login})

\* The loop of _filter_contributors skipping bot logins whatever skip_bots.
RECURSIVE FilterSorted_AlwaysSkipBots(_, _, _)
FilterSorted_AlwaysSkipBots(logins, cfg, filtered) ==
    IF logins = <<>> THEN filtered
    ELSE LET login == Head(logins)
         IN  IF login \in Range(cfg.exclude_users)
             THEN FilterSorted_AlwaysSkipBots(Tail(logins), cfg, filtered)
             ELSE IF EndsWith(login, BotSuffix)
             THEN FilterSorted_AlwaysSkipBots(Tail(logins), cfg, filtered)
             ELSE FilterSorted_AlwaysSkipBots(Tail(logins), cfg,
                                              Append(filtered, login))

\* The loop of _filter_contributors without the test of lines 137-138.
RECURSIVE FilterSorted_NoExclusion(_, _, _)
FilterSorted_NoExclusion(logins, cfg, filtered) ==
    IF logins = <<>> THEN filtered
    ELSE LET login == Head(logins)
         IN  IF cfg.skip_bots /\ EndsWith(login, BotSuffix)
             THEN FilterSorted_NoExclusion(Tail(logins), cfg, filtered)
             ELSE FilterSorted_NoExclusion(Tail(logins), cfg,
                                           Append(filtered, login))

\* Lines 136-143: the loop of _filter_contributors over sorted(contributors).
RECURSIVE FilterSorted(_, _, _)
FilterSorted(logins, cfg, filtered) ==
    IF logins = <<>> THEN filtered
    ELSE LET login == Head(logins)
         IN  IF login \in Range(cfg.exclude_users)
             THEN FilterSorted(Tail(logins), cfg, filtered)
             ELSE IF cfg.skip_bots /\ EndsWith(login, BotSuffix)
             THEN FilterSorted(Tail(logins), cfg, filtered)
             ELSE FilterSorted(Tail(logins), cfg, Append(filtered, login))

\* The reverse of a sequence.
RECURSIVE Reverse(_)
Reverse(q) == IF q = <<>> THEN <<>> ELSE Append(Reverse(Tail(q)), Head(q))

\* _filter_contributors iterating in descending order.
FilterContributors_Descending(S, cfg) ==
    FilterSorted(Reverse(Sorted(S)), cfg, <<>>)

\* _filter_contributors(contributors)
FilterContributors(S, cfg) == FilterSorted(Sorted(S), cfg, <<>>)

-----------------------------------------------------------------------------
(* _get_pr_number: the choice of the key (lines 89-101).                   *)

EmptyDict == [k \in {} |-> <<>>]

\* dict.get(key) is truthy: the key is present with a non-empty object/list.
TruthyAt(d, key) == key \in DOMAIN d /\ DOMAIN d[key] # {}

\* The result of lines 89-101: no key (return None), a pull request number
\* (line 93), a commit sha (lines 96, 101), or the KeyError a subscript raises.
NoKey == [kind |-> "none", number |-> 0, sha |-> "", key |-> ""]

\* _get_pr_number testing head_commit before pull_request.
EventKey_HeadCommitFirst(ev) ==
    IF ev = <<>> \/ DOMAIN ev[1] = {} THEN NoKey
    ELSE LET d == ev[1] IN
         IF TruthyAt(d, "head_commit")
         THEN IF "id" \in DOMAIN d["head_commit"]
              THEN [NoKey EXCEPT !.kind = "sha", !.sha = d["head_commit"]["id"]]
              ELSE [NoKey EXCEPT !.kind = "KeyError", !.key = "id"]
         ELSE IF TruthyAt(d, "pull_request")
         THEN IF "number" \in DOMAIN d["pull_request"]
              THEN [NoKey EXCEPT !.kind = "number",
                                 !.number = d["pull_request"]["number"]]
              ELSE [NoKey EXCEPT !.kind = "KeyError", !.key = "number"]
         ELSE LET commits == IF "commits" \in DOMAIN d THEN d["commits"] ELSE <<>>
              IN  IF commits = <<>> THEN NoKey
                  ELSE IF "id" \in DOMAIN commits[1]
                  THEN [NoKey EXCEPT !.kind = "sha", !.sha = commits[1]["id"]]
                  ELSE [NoKey EXCEPT !.kind = "KeyError", !.key = "id"]

EventKey(ev) ==
    IF ev = <<>> \/ DOMAIN ev[1] = {} THEN NoKey
    ELSE LET d == ev[1] IN
         IF TruthyAt(d, "pull_request")
         THEN IF "number" \in DOMAIN d["pull_request"]
              THEN [NoKey EXCEPT !.kind = "number",
                                 !.number = d["pull_request"]["number"]]
              ELSE [NoKey EXCEPT !.kind = "KeyError", !.key = "number"]
         ELSE IF TruthyAt(d, "head_commit")
         THEN IF "id" \in DOMAIN d["head_commit"]
              THEN [NoKey EXCEPT !.kind = "sha", !.sha = d["head_commit"]["id"]]
              ELSE [NoKey EXCEPT !.kind = "KeyError", !.key = "id"]
         ELSE LET commits == IF "commits" \in DOMAIN d THEN d["commits"] ELSE <<>>
              IN  IF commits = <<>> THEN NoKey
                  ELSE IF "id" \in DOMAIN commits[1]
                  THEN [NoKey EXCEPT !.kind = "sha", !.sha = commits[1]["id"]]
                  ELSE [NoKey EXCEPT !.kind = "KeyError", !.key = "id"]

-----------------------------------------------------------------------------
(* Exceptions and the log of remote calls.                                 *)

\* An exception: its class, and for a GithubException its status and data
\* (data: <<>> when it is no dict, <<d>> for a dict d); message is the text
\* of any other exception, as a sequence of pieces of text.
Exception(type, status, data, message) ==
    [type |-> type, status |-> status, data |-> data, message |-> message]

GithubException(status, data) == Exception("GithubException", status, data, <<>>)

AutopubException(message) == Exception("AutopubException", 0, <<>>, message)

KeyError(key) == Exception("KeyError", 0, <<>>, <<key>>)

\* What a remote lookup (repository, commit, pull request, organization,
\* team, user) may raise.
LookupErrors ==
    {GithubException(404, <<[message |-> <<"Not Found">>]>>),
     GithubException(422, <<[message |-> <<"Validation Failed">>]>>)}

\* What organization.invite_user may raise.
InviteErrors ==
    {GithubException(422, <<[message |-> <<"Validation Failed">>]>>),
     GithubException(403, <<[message |-> <<"Forbidden">>]>>),
     GithubException(404, <<[documentation_url |-> <<"https://docs">>]>>),
     GithubException(500, <<>>)}

\* str(exc) of a GithubException: the library's rendering, which starts
\* with the status.
StrOfException(exc) ==
    <<CASE exc.status = 403 -> "403"
        [] exc.status = 404 -> "404"
        [] exc.status = 422 -> "422"
        [] OTHER            -> "500">>

\* One remote call: the operation, its argument (a commit sha, a name or a
\* login), the pull request number, the role and teams of an invite request,
\* and the exception it raised (<<>> when it returned).
Call(op, arg, raised) ==
    [op |-> op, arg |-> arg, number |-> 0, user |-> <<>>, role |-> "",
     teams |-> <<>>, raised |-> raised]

\* The outcomes of a remote call that may fail to find its entity.
LookupOutcomes == {<<>>} \cup {<<e>> : e \in LookupErrors}

\* The calls of the log with operation op, in order.
RECURSIVE CallsOf(_, _)
CallsOf(log, op) ==
    IF log = <<>> THEN <<>>
    ELSE (IF Head(log).op = op THEN <<Head(log)>> ELSE <<>>)
         \o CallsOf(Tail(log), op)

-----------------------------------------------------------------------------
(* The inputs of a run: the trigger event and the remote platform.         *)

\* A commit of a pull request:
\* [author: Optional[[login: Optional[str]]], message: str].
Commit(author, message) == [author |-> author, message |-> message]

Author(login) == <<[login |-> <<login>>]>>

M_fix == <<"f","i","x">>

\* "fix\nCo-authored-by: @carol <c>"
M_coauthor_carol ==
    M_fix \o <<"\n">> \o CoAuthoredBy \o <<" ","@">> \o S_carol \o <<" ","<","c",">">>

\* "Co-authored-by: dependabot[bot] <d>"
M_coauthor_bot == CoAuthoredBy \o <<" ">> \o S_dependabot_bot \o <<" ","<","d",">">>

C_alice == Commit(Author(S_alice), M_fix)
C_carol == Commit(<<>>, M_coauthor_carol)
C_ci_bot == Commit(Author(S_ci_bot), M_coauthor_bot)
C_nologin == Commit(<<[login |-> <<>>]>>, <<>>)
C_plain == Commit(<<>>, M_fix)
C_dependabot == Commit(Author(S_dependabot_bot), M_fix)

\* "Co-authored-by: @@bob\n Co-authored-by: @dave\nco-authored-by: @dave\n
\*  Co-authored-by: @\nCo-authored-by:"
M_odd ==
    CoAuthoredBy \o <<" ","@","@">> \o S_bob \o <<"\n">>
    \o <<" ">> \o CoAuthoredBy \o <<" ","@">> \o S_dave \o <<"\n">>
    \o <<"c">> \o Tail(CoAuthoredBy) \o <<" ","@">> \o S_dave \o <<"\n">>
    \o CoAuthoredBy \o <<" ","@","\n">>
    \o CoAuthoredBy

\* "Co-authored-by: @dave\tx <d>"
M_tab == CoAuthoredBy \o <<" ","@">> \o S_dave \o <<"\t","x"," ","<","d",">">>

C_odd == Commit(<<>>, M_odd)
C_tab == Commit(<<>>, M_tab)

\* "Co-authored-by: dependabot <d>\nCo-authored-by: @dependabot-preview"
M_coauthor_dependabot ==
    CoAuthoredBy \o <<" ">> \o S_dependabot \o <<" ","<","d",">","\n">>
    \o CoAuthoredBy \o <<" ","@">> \o S_dependabot_preview

C_preview == Commit(Author(S_dependabot_preview_bot), M_coauthor_dependabot)

\* The commits the pull requests of SpecResolve are made of.
CommitPool ==
    {C_alice, C_carol, C_ci_bot, C_nologin, C_plain, C_dependabot, C_preview,
     C_odd, C_tab}

\* A remote pull request: its author and its commits.
RemotePull(login, commits) == [user |-> [login |-> login], commits |-> commits]

\* The pull requests a run of Spec is drawn from.
RemotePulls ==
    {RemotePull(S_bob, <<C_alice, C_carol>>),
     RemotePull(S_dependabot_bot, <<C_ci_bot>>),
     RemotePull(S_dave, <<C_ci_bot, C_nologin>>)}

\* The repository: with or without an owning organization.
Repositories ==
    {[organization |-> <<>>], [organization |-> <<[login |-> "owner"]>>]}

\* A JSON object with the keys whose value is given (<<v>>, not <<>>).
EventOf(p, h, c) ==
    LET opt(k) == CASE k = "pull_request" -> p
                    [] k = "head_commit"  -> h
                    [] OTHER              -> c
    IN  [k \in {x \in {"pull_request", "head_commit", "commits"} : opt(x) # <<>>}
            |-> opt(k)[1]]

\* The values of event["pull_request"]: absent, {}, an object without
\* "number", an object with it.
EventPullRequests ==
    {<<>>, <<EmptyDict>>, <<[title |-> "t"]>>, <<[number |-> 42]>>}

\* The values of event["head_commit"].
EventHeadCommits ==
    {<<>>, <<EmptyDict>>, <<[message |-> "m"]>>, <<[id |-> "abc123"]>>}

\* The values of event["commits"].
EventCommits ==
    {<<>>, << <<>> >>, << <<[id |-> "def456"]>> >>, << <<[message |-> "m"]>> >>,
     << <<[id |-> "def456"], [id |-> "fff999"]>> >>,
     << <<[message |-> "m"], [id |-> "def456"]>> >>}

\* Every trigger event: no event file, or a JSON object.
Events ==
    {<<>>} \cup
    {<<EventOf(p, h, c)>> :
        p \in EventPullRequests, h \in EventHeadCommits, c \in EventCommits}

\* The trigger events a run of Spec is drawn from.
MainEvents ==
    {<<>>,
     <<EventOf(<<[number |-> 42]>>, <<>>, <<>>)>>,
     <<EventOf(<<>>, <<[id |-> "abc123"]>>, <<>>)>>}

\* The numbers of the pull requests the remote may associate with a commit.
PullNumbers == {7, 9}

RECURSIVE SeqsUpTo(_, _)
SeqsUpTo(S, n) ==
    IF n = 0 THEN {<<>>}
    ELSE LET shorter == SeqsUpTo(S, n - 1)
         IN  shorter \cup {Append(q, x) : q \in shorter, x \in S}

\* The results of commit.get_pulls().
AssociatedPulls == SeqsUpTo(PullNumbers, MaxPulls)

-----------------------------------------------------------------------------
(* The run of post_publish.                                                *)

InitRun ==
    /\ pc = "start"
    /\ pulls = <<>>
    /\ pull_request = <<>>
    /\ contributors = {}
    /\ contributors_to_invite = <<>>
    /\ organization = <<>>
    /\ team = <<>>
    /\ idx = 0
    /\ user = <<>>
    /\ calls = <<>>
    /\ notices = <<>>
    /\ error = <<>>

Init ==
    /\ config \in Configs
    /\ event_data \in MainEvents
    /\ repository \in Repositories
    /\ remote_pr \in RemotePulls
    /\ InitRun

\* The run ends by raising exc.
Raise(exc) == pc' = "failed" /\ error' = <<exc>>

\* The run ends by returning.
Return == pc' = "done" /\ error' = error

\* post_publish without the check of lines 193-194: pr.user of line 112
\* raises AttributeError on None.
NoPullRequest_NoCheck ==
    Raise(Exception("AttributeError", 0, <<>>, <<"user">>))

\* post_publish checking the organization before it returns at line 194:
\* without a configured or owning organization the no-op run raises the
\* configuration error of lines 154-157.
NoPullRequest_OrganizationCheck ==
    IF ~TruthyName(config.organization) /\ repository.organization = <<>>
    THEN Raise(AutopubException(
            <<"No organization configured. Set tool.autopub.plugin_config",
              ".invite_contributors.organization">>))
    ELSE Return

\* Lines 83-84 and 193-194: self.pull_request is None and post_publish
\* returns.
NoPullRequest == Return

\* Lines 192 and 81, 89-101: post_publish reads self.pull_request, whose
\* _get_pr_number picks the key from the event.
GetPrNumber ==
    /\ pc = "start"
    /\ LET key == EventKey(event_data) IN
        \/ /\ key.kind = "none"
           /\ NoPullRequest
        \/ /\ key.kind = "KeyError"
           /\ Raise(KeyError(key.key))
        \/ /\ key.kind \in {"number", "sha"}
           /\ pc' = "get_repo"
           /\ error' = error
    /\ UNCHANGED <<config, event_data, repository, remote_pr, pulls,
                   pull_request, contributors, contributors_to_invite,
                   organization, team, idx, user, calls, notices>>

\* Lines 75-77: the first use of self.repository fetches it.
GetRepo ==
    /\ pc = "get_repo"
    /\ \E raised \in LookupOutcomes :
        /\ calls' = Append(calls, Call("get_repo", <<>>, raised))
        /\ IF raised # <<>> THEN Raise(raised[1])
           ELSE /\ pc' = IF EventKey(event_data).kind = "sha"
                         THEN "get_commit" ELSE "get_pull"
                /\ error' = error
    /\ UNCHANGED <<config, event_data, repository, remote_pr, pulls,
                   pull_request, contributors, contributors_to_invite,
                   organization, team, idx, user, notices>>

\* Line 103: repository.get_commit(sha).
GetCommit ==
    /\ pc = "get_commit"
    /\ \E raised \in LookupOutcomes :
        /\ calls' = Append(calls, Call("get_commit",
                                       <<EventKey(event_data).sha>>, raised))
        /\ IF raised # <<>> THEN Raise(raised[1])
           ELSE pc' = "get_pulls" /\ error' = error
    /\ UNCHANGED <<config, event_data, repository, remote_pr, pulls,
                   pull_request, contributors, contributors_to_invite,
                   organization, team, idx, user, notices>>

\* Lines 104-109 and 83-84: commit.get_pulls() and its first element.
GetPulls ==
    /\ pc = "get_pulls"
    /\ \E raised \in LookupOutcomes, found \in AssociatedPulls :
        /\ calls' = Append(calls, Call("get_pulls",
                                       <<EventKey(event_data).sha>>, raised))
        /\ IF raised # <<>>
           THEN Raise(raised[1]) /\ pulls' = pulls
           ELSE /\ pulls' = <<found>>
                /\ IF found = <<>> THEN NoPullRequest
                   ELSE pc' = "get_pull" /\ error' = error
    /\ UNCHANGED <<config, event_data, repository, remote_pr,
                   pull_request, contributors, contributors_to_invite,
                   organization, team, idx, user, notices>>

\* _get_pr_number returning the number of the last associated pull request.
PrNumber_Last ==
    IF EventKey(event_data).kind = "number"
    THEN EventKey(event_data).number
    ELSE pulls[1][Len(pulls[1])]

\* The number _get_pr_number returned, once it has one.
PrNumber ==
    IF EventKey(event_data).kind = "number"
    THEN EventKey(event_data).number
    ELSE pulls[1][1]

\* Line 86: repository.get_pull(pr_number).
GetPull ==
    /\ pc = "get_pull"
    /\ \E raised \in LookupOutcomes :
        /\ calls' = Append(calls, [Call("get_pull", <<>>, raised)
                                     EXCEPT !.number = PrNumber])
        /\ IF raised # <<>>
           THEN Raise(raised[1]) /\ pull_request' = pull_request
           ELSE /\ pull_request' =
                      <<[number |-> PrNumber, user |-> remote_pr.user,
                         commits |-> remote_pr.commits]>>
                /\ pc' = "located"
                /\ error' = error
    /\ UNCHANGED <<config, event_data, repository, remote_pr, pulls,
                   contributors, contributors_to_invite,
                   organization, team, idx, user, notices>>


\* ResolveContributors without the check of lines 199-200.
ResolveContributors_NoEmptyCheck ==
    /\ pc = "located"
    /\ \E raised \in LookupOutcomes :
        /\ calls' = Append(calls, [Call("get_commits", <<>>, raised)
                                     EXCEPT !.number = pull_request[1].number])
        /\ IF raised # <<>>
           THEN /\ Raise(raised[1])
                /\ UNCHANGED <<contributors, contributors_to_invite>>
           ELSE /\ contributors' = GetPrContributors(pull_request[1], config)
                /\ contributors_to_invite' =
                      FilterContributors(contributors', config)
                /\ error' = error
                /\ pc' = "resolve_organization"
    /\ UNCHANGED <<config, event_data, repository, remote_pr, pulls,
                   pull_request, organization, team, idx, user, notices>>

\* Lines 196-200: _get_pr_contributors (which enumerates pr.get_commits())
\* then _filter_contributors; an empty list ends the run.
ResolveContributors ==
    /\ pc = "located"
    /\ \E raised \in LookupOutcomes :
        /\ calls' = Append(calls, [Call("get_commits", <<>>, raised)
                                     EXCEPT !.number = pull_request[1].number])
        /\ IF raised # <<>>
           THEN /\ Raise(raised[1])
                /\ UNCHANGED <<contributors, contributors_to_invite>>
           ELSE /\ contributors' = GetPrContributors(pull_request[1], config)
                /\ contributors_to_invite' =
                      FilterContributors(contributors', config)
                /\ error' = error
                /\ pc' = IF contributors_to_invite' = <<>>
                         THEN "done" ELSE "resolve_organization"
    /\ UNCHANGED <<config, event_data, repository, remote_pr, pulls,
                   pull_request, organization, team, idx, user, notices>>

\* The text of the exception of lines 154-157.
NoOrganizationMessage ==
    <<"No organization configured. Set tool.autopub.plugin_config",
      ".invite_contributors.organization">>

\* _resolve_organization returning None instead of raising at line 154.
ResolveOrganization_NoRaise ==
    /\ pc = "resolve_organization"
    /\ \/ /\ TruthyName(config.organization) \/ repository.organization # <<>>
          /\ LET name == IF TruthyName(config.organization)
                         THEN config.organization[1]
                         ELSE repository.organization[1].login
             IN  \E raised \in LookupOutcomes :
                    /\ calls' = Append(calls,
                                       Call("get_organization", <<name>>, raised))
                    /\ IF raised # <<>>
                       THEN Raise(raised[1]) /\ organization' = organization
                       ELSE /\ organization' = <<[login |-> name]>>
                            /\ pc' = "resolve_team"
                            /\ error' = error
       \/ /\ ~TruthyName(config.organization)
          /\ repository.organization = <<>>
          /\ pc' = "resolve_team"
          /\ UNCHANGED <<calls, organization, error>>
    /\ UNCHANGED <<config, event_data, repository, remote_pr, pulls,
                   pull_request, contributors, contributors_to_invite,
                   team, idx, user, notices>>

\* Lines 147-157 (called at line 202): _resolve_organization.
ResolveOrganization ==
    /\ pc = "resolve_organization"
    /\ \/ /\ TruthyName(config.organization) \/ repository.organization # <<>>
          /\ LET name == IF TruthyName(config.organization)
                         THEN config.organization[1]
                         ELSE repository.organization[1].login
             IN  \E raised \in LookupOutcomes :
                    /\ calls' = Append(calls,
                                       Call("get_organization", <<name>>, raised))
                    /\ IF raised # <<>>
                       THEN Raise(raised[1]) /\ organization' = organization
                       ELSE /\ organization' = <<[login |-> name]>>
                            /\ pc' = "resolve_team"
                            /\ error' = error
       \/ /\ ~TruthyName(config.organization)
          /\ repository.organization = <<>>
          /\ Raise(AutopubException(NoOrganizationMessage))
          /\ UNCHANGED <<calls, organization>>
    /\ UNCHANGED <<config, event_data, repository, remote_pr, pulls,
                   pull_request, contributors, contributors_to_invite,
                   team, idx, user, notices>>

\* _resolve_team skipped in a dry run: the team is looked up only when
\* invitations are to be sent.
ResolveTeam_SkipInDryRun ==
    /\ pc = "resolve_team"
    /\ \/ /\ ~TruthyName(config.team_slug) \/ config.dry_run
          /\ team' = <<>>
          /\ pc' = "loop" /\ idx' = 1
          /\ UNCHANGED <<calls, error>>
       \/ /\ TruthyName(config.team_slug) /\ ~config.dry_run
          /\ \E raised \in LookupOutcomes :
                /\ calls' = Append(calls, Call("get_team_by_slug",
                                               <<config.team_slug[1]>>, raised))
                /\ IF raised # <<>>
                   THEN Raise(raised[1]) /\ UNCHANGED <<team, idx>>
                   ELSE /\ team' = <<[slug |-> config.team_slug[1]]>>
                        /\ pc' = "loop" /\ idx' = 1
                        /\ error' = error
    /\ UNCHANGED <<config, event_data, repository, remote_pr, pulls,
                   pull_request, contributors, contributors_to_invite,
                   organization, user, notices>>

\* Lines 159-163 (called at line 203): _resolve_team; then the loop of
\* line 205 starts at the first login.
ResolveTeam ==
    /\ pc = "resolve_team"
    /\ \/ /\ ~TruthyName(config.team_slug)
          /\ team' = <<>>
          /\ pc' = "loop" /\ idx' = 1
          /\ UNCHANGED <<calls, error>>
       \/ /\ TruthyName(config.team_slug)
          /\ \E raised \in LookupOutcomes :
                /\ calls' = Append(calls, Call("get_team_by_slug",
                                               <<config.team_slug[1]>>, raised))
                /\ IF raised # <<>>
                   THEN Raise(raised[1]) /\ UNCHANGED <<team, idx>>
                   ELSE /\ team' = <<[slug |-> config.team_slug[1]]>>
                        /\ pc' = "loop" /\ idx' = 1
                        /\ error' = error
    /\ UNCHANGED <<config, event_data, repository, remote_pr, pulls,
                   pull_request, contributors, contributors_to_invite,
                   organization, user, notices>>

\* The login the loop of line 205 is at.
Login == contributors_to_invite[idx]

\* The loop resolving the organization and the team again before each
\* further login.
NextLogin_ReResolve ==
    IF idx = Len(contributors_to_invite)
    THEN pc' = "done" /\ idx' = idx
    ELSE pc' = "resolve_organization" /\ idx' = idx + 1

\* Line 205: the loop moves to the next login, or post_publish returns.
NextLogin ==
    IF idx = Len(contributors_to_invite)
    THEN pc' = "done" /\ idx' = idx
    ELSE pc' = "loop" /\ idx' = idx + 1

\* The line printed at line 207.
Notice(login) == <<"[invite_contributors] would invite @">> \o login

\* DryRunNotice without the continue of line 208: the login is printed and
\* then invited.
DryRunNotice_NoContinue ==
    /\ pc = "loop"
    /\ config.dry_run
    /\ notices' = Append(notices, Notice(Login))
    /\ calls' = Append(calls, Call("get_user", Login, <<>>))
    /\ user' = <<[login |-> Login]>>
    /\ pc' = "invite"
    /\ UNCHANGED <<config, event_data, repository, remote_pr, pulls,
                   pull_request, contributors, contributors_to_invite,
                   organization, team, idx, error>>

\* Lines 206-208: the dry run prints and continues.
DryRunNotice ==
    /\ pc = "loop"
    /\ config.dry_run
    /\ notices' = Append(notices, Notice(Login))
    /\ NextLogin
    /\ UNCHANGED <<config, event_data, repository, remote_pr, pulls,
                   pull_request, contributors, contributors_to_invite,
                   organization, team, user, calls, error>>

\* _invite_login tolerating a failed get_user: the login is skipped and the
\* loop goes on.
GetUser_Tolerant ==
    /\ pc = "loop"
    /\ ~config.dry_run
    /\ \E raised \in LookupOutcomes :
        /\ calls' = Append(calls, Call("get_user", Login, raised))
        /\ IF raised = <<>>
           THEN /\ user' = <<[login |-> Login]>>
                /\ pc' = "invite"
                /\ idx' = idx
           ELSE NextLogin /\ user' = user
    /\ UNCHANGED <<config, event_data, repository, remote_pr, pulls,
                   pull_request, contributors, contributors_to_invite,
                   organization, team, notices, error>>

\* Lines 210 and 166: _invite_login resolves the user.
GetUser ==
    /\ pc = "loop"
    /\ ~config.dry_run
    /\ \E raised \in LookupOutcomes :
        /\ calls' = Append(calls, Call("get_user", Login, raised))
        /\ IF raised # <<>>
           THEN Raise(raised[1]) /\ user' = user
           ELSE /\ user' = <<[login |-> Login]>>
                /\ pc' = "invite"
                /\ error' = error
    /\ UNCHANGED <<config, event_data, repository, remote_pr, pulls,
                   pull_request, contributors, contributors_to_invite,
                   organization, team, idx, notices>>

\* Lines 183-187: the exception _invite_login raises for exc.
InviteFailure(login, exc) ==
    LET message == IF exc.data # <<>> /\ "message" \in DOMAIN exc.data[1]
                   THEN exc.data[1]["message"]
                   ELSE StrOfException(exc)
    IN  AutopubException(<<"Failed to invite @">> \o login \o <<": ">> \o message)

\* IsDuplicate tolerating every exception of the invite request.
IsDuplicate_Any(exc) == exc.status >= 400

\* IsDuplicate tolerating no exception.
IsDuplicate_Never(exc) == FALSE

\* Line 180: the exception is the tolerated duplicate.
IsDuplicate(exc) == exc.status = 422

\* _invite_login without lines 173-174: the team is never passed.
InviteUser_NoTeams ==
    /\ pc = "invite"
    /\ \E raised \in {<<>>} \cup {<<e>> : e \in InviteErrors} :
        /\ calls' = Append(calls,
              [Call("invite_user", Login, raised)
                 EXCEPT !.user = user,
                        !.role = config.role,
                        !.teams = <<>>])
        /\ IF raised = <<>> \/ IsDuplicate(raised[1])
           THEN NextLogin /\ error' = error
           ELSE Raise(InviteFailure(Login, raised[1])) /\ idx' = idx
    /\ UNCHANGED <<config, event_data, repository, remote_pr, pulls,
                   pull_request, contributors, contributors_to_invite,
                   organization, team, user, notices>>

\* Lines 168-187: the invite request and the handling of its exception.
InviteUser ==
    /\ pc = "invite"
    /\ \E raised \in {<<>>} \cup {<<e>> : e \in InviteErrors} :
        /\ calls' = Append(calls,
              [Call("invite_user", Login, raised)
                 EXCEPT !.user = user,
                        !.role = config.role,
                        !.teams = IF team # <<>> THEN << <<team[1]>> >> ELSE <<>>])
        /\ IF raised = <<>> \/ IsDuplicate(raised[1])
           THEN NextLogin /\ error' = error
           ELSE Raise(InviteFailure(Login, raised[1])) /\ idx' = idx
    /\ UNCHANGED <<config, event_data, repository, remote_pr, pulls,
                   pull_request, contributors, contributors_to_invite,
                   organization, team, user, notices>>

Next ==
    \/ GetPrNumber
    \/ GetRepo
    \/ GetCommit
    \/ GetPulls
    \/ GetPull
    \/ ResolveContributors
    \/ ResolveOrganization
    \/ ResolveTeam
    \/ DryRunNotice
    \/ GetUser
    \/ InviteUser

Spec == Init /\ [][Next]_vars

\* The configurations a run of SpecLocate is drawn from: the default one,
\* and a dry run with an organization and a team.
LocateConfigs ==
    {DefaultConfig,
     [DefaultConfig EXCEPT !.organization = <<"acme">>,
                           !.team_slug = <<"core">>,
                           !.dry_run = TRUE]}

\* Runs over every trigger event.
InitLocate ==
    /\ config \in LocateConfigs
    /\ event_data \in Events
    /\ repository \in Repositories
    /\ remote_pr \in RemotePulls
    /\ InitRun

SpecLocate == InitLocate /\ [][Next]_vars

\* The configurations a run of SpecResolve is drawn from: the default one
\* and its variations in the fields _get_pr_contributors and
\* _filter_contributors read, with and without dry_run.
ResolveConfigs ==
    {[DefaultConfig EXCEPT !.skip_bots = sb, !.include_co_authors = co,
                           !.exclude_users = ex, !.dry_run = dr] :
        sb \in BOOLEAN, co \in BOOLEAN, dr \in BOOLEAN,
        ex \in {KNOWN_BOT_EXCLUSIONS, <<S_bob, S_ci_bot>>}}

\* The pull requests a run of SpecResolve is drawn from.
ResolvePulls ==
    {RemotePull(login, commits) :
        login \in {S_bob, S_dependabot_bot},
        commits \in SeqsUpTo(CommitPool, MaxCommits)}

\* Runs in a repository owned by an organization: triggered by a pull
\* request event, over every pull request made of up to MaxCommits commits
\* of the pool; triggered by a push event, over the pull requests of Spec.
InitResolve ==
    /\ config \in ResolveConfigs
    /\ repository = [organization |-> <<[login |-> "owner"]>>]
    /\ \/ /\ event_data = <<EventOf(<<[number |-> 42]>>, <<>>, <<>>)>>
          /\ remote_pr \in ResolvePulls
       \/ /\ event_data = <<EventOf(<<>>, <<[id |-> "abc123"]>>, <<>>)>>
          /\ remote_pr \in RemotePulls
    /\ InitRun

SpecResolve == InitResolve /\ [][Next]_vars

-----------------------------------------------------------------------------
(* Properties of the invitation loop.                                      *)

\* Some call of the log has operation op.
HasCall(op) == \E i \in 1..Len(calls) : calls[i].op = op

\* The invite requests issued so far, and their logins.
InviteCalls == CallsOf(calls, "invite_user")
InvitedLogins == [i \in 1..Len(InviteCalls) |-> InviteCalls[i].arg]

\* The last remote call, for a non-empty log.
LastCall == calls[Len(calls)]

\* The run has ended.
Ended == pc \in {"done", "failed"}

\* The notices of a dry run over logins.
NoticesFor(logins) == [i \in 1..Len(logins) |-> Notice(logins[i])]

\* C1 (as stated): a dry run issues no invite request and ends with exactly
\* one notice per login of the filtered invite list.
C1_Original ==
    (config.dry_run /\ Ended) =>
        /\ ~HasCall("invite_user")
        /\ Len(notices) = Len(contributors_to_invite)

\* C1 (amended): a dry run never issues an invite request; its notices are
\* those of a prefix of the filtered invite list, in order; and a dry run
\* that returns has printed exactly one notice per login of the list.
C1_DryRunNoticesOnly ==
    config.dry_run =>
        /\ ~HasCall("invite_user")
        /\ Len(notices) <= Len(contributors_to_invite)
        /\ notices =
              NoticesFor(SubSeq(contributors_to_invite, 1, Len(notices)))
        /\ (pc = "done" => Len(notices) = Len(contributors_to_invite))

\* A dry run returned after two or more notices.
C1_Witness ==
    /\ config.dry_run
    /\ pc = "done"
    /\ Len(notices) >= 2

\* The text names the login: "Failed to invite @", the login, ": ", ...
NamesLogin(message, login) ==
    /\ Len(message) >= Len(login) + 2
    /\ message[1] = "Failed to invite @"
    /\ SubSeq(message, 2, Len(login) + 1) = login
    /\ message[Len(login) + 2] = ": "

\* The call is an invite request that raised something else than the
\* duplicate (status 422).
FailedInvite(c) ==
    c.op = "invite_user" /\ c.raised # <<>> /\ c.raised[1].status # 422

\* C2: an invite request failing with a status other than 422 ends the run
\* with an AutopubException naming its login, and is the last remote call
\* of the run: no user lookup and no invite request follows it.
C2_FailureAborts ==
    \A i \in 1..Len(calls) :
        FailedInvite(calls[i]) =>
            /\ i = Len(calls)
            /\ pc = "failed"
            /\ error # <<>>
            /\ error[1].type = "AutopubException"
            /\ calls[i].arg = contributors_to_invite[idx]
            /\ NamesLogin(error[1].message, calls[i].arg)

\* An invite request failed with status 403 for a login that is not the
\* last one of the list, after an earlier login was invited.
C2_Witness ==
    /\ pc = "failed"
    /\ calls # <<>>
    /\ LastCall.op = "invite_user"
    /\ LastCall.raised # <<>>
    /\ LastCall.raised[1].status = 403
    /\ 1 < idx
    /\ idx < Len(contributors_to_invite)

\* The call is an invite request that returned or raised the duplicate.
ToleratedInvite(c) ==
    c.op = "invite_user" /\ (c.raised = <<>> \/ c.raised[1].status = 422)

\* C3 (as stated): a run that reached the loop without dry_run, all of whose
\* invite requests succeeded or raised the duplicate, ends by returning,
\* with an invite request issued for every login of the list.
C3_Original ==
    (/\ Ended
     /\ idx >= 1
     /\ ~config.dry_run
     /\ \A i \in 1..Len(InviteCalls) : ToleratedInvite(InviteCalls[i]))
    => (pc = "done" /\ InvitedLogins = contributors_to_invite)

\* C3 (amended): a duplicate (422) raises no error and the loop goes on to
\* the next login (or returns after the last one); the loop fails only on a
\* failed user lookup or on an invite failure other than the duplicate; and
\* a run that returns without dry_run issued an invite request for every
\* login of the list.
C3_DuplicateTolerated ==
    /\ (calls # <<>> /\ LastCall.op = "invite_user"
        /\ LastCall.raised # <<>> /\ LastCall.raised[1].status = 422) =>
            /\ error = <<>>
            /\ \/ pc = "done" /\ LastCall.arg = contributors_to_invite[idx]
                  /\ idx = Len(contributors_to_invite)
               \/ pc = "loop" /\ LastCall.arg = contributors_to_invite[idx - 1]
    /\ (pc = "failed" /\ idx >= 1) =>
            /\ LastCall.raised # <<>>
            /\ \/ LastCall.op = "get_user"
               \/ FailedInvite(LastCall)
    /\ (pc = "done" /\ idx >= 1 /\ ~config.dry_run) =>
            /\ error = <<>>
            /\ InvitedLogins = contributors_to_invite

\* A run returned after a duplicate for a login that was not the last one.
C3_Witness ==
    /\ pc = "done"
    /\ ~config.dry_run
    /\ Len(InviteCalls) >= 2
    /\ InviteCalls[1].raised # <<>>
    /\ InviteCalls[1].raised[1].status = 422

\* C4: the logins of the invite requests issued so far are a prefix of the
\* filtered invite list, and strictly ascending (so none appears twice).
C4_InvitesInSortedOrder ==
    /\ Len(InvitedLogins) <= Len(contributors_to_invite)
    /\ InvitedLogins = SubSeq(contributors_to_invite, 1, Len(InvitedLogins))
    /\ \A i, j \in 1..Len(InvitedLogins) :
            i < j => StrLess(InvitedLogins[i], InvitedLogins[j])

\* Three invite requests were issued, the first for a login that is not the
\* author of the pull request (the set was built author first).
C4_Witness ==
    /\ Len(InvitedLogins) = 3
    /\ InvitedLogins[1] # pull_request[1].user.login

-----------------------------------------------------------------------------
(* Properties of the runs that end without inviting.                       *)

\* The remote calls post_publish issues once it has a pull request number.
AfterLocateOps ==
    {"get_pull", "get_commits", "get_organization", "get_team_by_slug",
     "get_user", "invite_user"}

\* C5: when self.pull_request is None (no event, no key in the event, or no
\* pull request associated with the commit) post_publish returns without
\* error and nothing else happens: no pull request or commit enumeration,
\* no organization, team or user lookup, no notice, no invite request.
C5_NoPullRequestNoAction ==
    /\ (pc # "start" /\ EventKey(event_data).kind = "none") =>
            pc = "done" /\ pull_request = <<>> /\ calls = <<>>
    /\ pulls = << <<>> >> =>
            pc = "done" /\ pull_request = <<>> /\ LastCall.op = "get_pulls"
    /\ (pc = "done" /\ pull_request = <<>>) =>
            /\ error = <<>>
            /\ \A i \in 1..Len(calls) : calls[i].op \notin AfterLocateOps
            /\ notices = <<>>
            /\ contributors = {}
            /\ contributors_to_invite = <<>>
            /\ organization = <<>>
            /\ team = <<>>

\* A run ended as a no-op after the commit had no associated pull request.
C5_Witness ==
    /\ pc = "done"
    /\ pull_request = <<>>
    /\ pulls = << <<>> >>

\* The contributors were resolved and the filtered list is empty.
ResolvedEmpty ==
    /\ \E i \in 1..Len(calls) :
            calls[i].op = "get_commits" /\ calls[i].raised = <<>>
    /\ contributors_to_invite = <<>>

\* C6: when the filtered invite list is empty post_publish returns without
\* error right after resolving and filtering the contributors: no
\* organization, team or user lookup, no notice, no invite request.
C6_EmptyListNoAction ==
    ResolvedEmpty =>
        /\ pc = "done"
        /\ error = <<>>
        /\ LastCall.op = "get_commits"
        /\ contributors # {}
        /\ FilterContributors(contributors, config) = <<>>
        /\ notices = <<>>
        /\ organization = <<>>
        /\ team = <<>>

\* A run ended with two or more contributors, all of them filtered out.
C6_Witness ==
    /\ ResolvedEmpty
    /\ pc = "done"
    /\ Cardinality(contributors) >= 2

\* Neither config.organization nor the repository gives an organization.
NoOrganization ==
    ~TruthyName(config.organization) /\ repository.organization = <<>>

\* C7: without a configured or owning organization, a run with a non-empty
\* filtered list fails with the configuration error at the organization
\* step: the contributors are resolved and filtered by then, and no
\* organization, team or user lookup, no notice and no invite request
\* happens before or after.
C7_ConfigErrorAtOrgStep ==
    NoOrganization =>
        /\ pc \notin {"resolve_team", "loop", "invite"}
        /\ organization = <<>>
        /\ team = <<>>
        /\ notices = <<>>
        /\ \A i \in 1..Len(calls) :
                calls[i].op \notin {"get_organization", "get_team_by_slug",
                                    "get_user", "invite_user"}
        /\ (Ended /\ contributors_to_invite # <<>>) =>
                /\ pc = "failed"
                /\ error = <<AutopubException(NoOrganizationMessage)>>
                /\ LastCall.op = "get_commits"
                /\ LastCall.raised = <<>>
                /\ contributors = GetPrContributors(pull_request[1], config)
                /\ contributors_to_invite =
                      FilterContributors(contributors, config)

\* A run with two or more logins to invite failed with the configuration
\* error.
C7_Witness ==
    /\ NoOrganization
    /\ pc = "failed"
    /\ error = <<AutopubException(NoOrganizationMessage)>>
    /\ Len(contributors_to_invite) >= 2

-----------------------------------------------------------------------------
(* Properties of the event locator.                                        *)

\* The key by the stated priority: pull_request.number if present, else
\* head_commit.id if present, else the id of the first element of commits
\* if there is one, else none.
PriorityKey(ev) ==
    IF ev = <<>> THEN NoKey
    ELSE LET d == ev[1] IN
         IF "pull_request" \in DOMAIN d /\ "number" \in DOMAIN d["pull_request"]
         THEN [NoKey EXCEPT !.kind = "number",
                            !.number = d["pull_request"]["number"]]
         ELSE IF "head_commit" \in DOMAIN d /\ "id" \in DOMAIN d["head_commit"]
         THEN [NoKey EXCEPT !.kind = "sha", !.sha = d["head_commit"]["id"]]
         ELSE IF /\ "commits" \in DOMAIN d
                 /\ d["commits"] # <<>>
                 /\ "id" \in DOMAIN d["commits"][1]
         THEN [NoKey EXCEPT !.kind = "sha", !.sha = d["commits"][1]["id"]]
         ELSE NoKey

\* C8 (as stated): for every event the locator never fails with a KeyError
\* and acts on the key of the stated priority: with no key the run is a
\* no-op, with a number no commit is looked up and that pull request is
\* fetched, with a sha that commit is the one looked up.
C8_Original ==
    pc # "start" =>
        LET key == PriorityKey(event_data) IN
        /\ error = <<>> \/ error[1].type # "KeyError"
        /\ key.kind = "none" => pc = "done" /\ calls = <<>>
        /\ key.kind = "number" =>
                /\ ~HasCall("get_commit")
                /\ \A i \in 1..Len(calls) :
                        calls[i].op = "get_pull" => calls[i].number = key.number
        /\ key.kind = "sha" =>
                /\ \A i \in 1..Len(calls) :
                        calls[i].op = "get_commit" => calls[i].arg = <<key.sha>>
                /\ HasCall("get_pull") => HasCall("get_commit")

\* The event carries pull_request.number.
HasPullRequestNumber ==
    /\ event_data # <<>>
    /\ "pull_request" \in DOMAIN event_data[1]
    /\ "number" \in DOMAIN event_data[1]["pull_request"]

\* C9: when the event carries pull_request.number, no commit and no
\* associated pull request is ever looked up, and the pull request fetched
\* is the one of that number.
C9_DirectNoCommitLookup ==
    HasPullRequestNumber =>
        LET number == event_data[1]["pull_request"]["number"] IN
        /\ ~HasCall("get_commit")
        /\ ~HasCall("get_pulls")
        /\ pulls = <<>>
        /\ \A i \in 1..Len(calls) :
                calls[i].op = "get_pull" => calls[i].number = number
        /\ pull_request # <<>> => pull_request[1].number = number
        /\ pc \notin {"get_commit", "get_pulls"}

\* A run located the pull request of an event that carries
\* pull_request.number together with head_commit and commits.
C9_Witness ==
    /\ HasPullRequestNumber
    /\ TruthyAt(event_data[1], "head_commit")
    /\ TruthyAt(event_data[1], "commits")
    /\ pull_request # <<>>
    /\ Ended

\* C10: after the pull requests associated with the commit were queried,
\* an empty result ends the run as a no-op without error, and a non-empty
\* one makes its first element the pull request that is fetched.
C10_FirstAssociatedPull ==
    pulls # <<>> =>
        IF pulls[1] = <<>>
        THEN /\ pc = "done"
             /\ error = <<>>
             /\ pull_request = <<>>
             /\ LastCall.op = "get_pulls"
        ELSE /\ \A i \in 1..Len(calls) :
                    calls[i].op \in {"get_pull", "get_commits"}
                        => calls[i].number = Head(pulls[1])
             /\ pull_request # <<>> => pull_request[1].number = Head(pulls[1])
             /\ pc = "done" => pull_request # <<>>

\* A pull request was located from two different associated pull requests.
C10_Witness ==
    /\ pulls # <<>>
    /\ Len(pulls[1]) = 2
    /\ pulls[1][1] # pulls[1][2]
    /\ pull_request # <<>>

-----------------------------------------------------------------------------
(* The contributor set and the invite list.                                *)

\* Lines 196-197 have run: the commits were enumerated and the contributor
\* set and the invite list are those of this run.
Resolved ==
    \E i \in 1..Len(calls) :
        calls[i].op = "get_commits" /\ calls[i].raised = <<>>

\* The logins of S the configuration retains.
Retained(S) ==
    {l \in S : /\ l \notin Range(config.exclude_users)
               /\ ~(config.skip_bots /\ EndsWith(l, BotSuffix))}

\* C11: the invite list holds exactly the retained logins of the contributor
\* set (not in exclude_users, and not ending with "[bot]" when skip_bots is
\* set), in strictly ascending code point order, so without duplicates; with
\* the default configuration {"bob", "alice", "dependabot[bot]"} gives
\* ["alice", "bob"].
C11_FilterExactSorted ==
    Resolved =>
        /\ Range(contributors_to_invite) = Retained(contributors)
        /\ \A i \in 1..(Len(contributors_to_invite) - 1) :
                StrLess(contributors_to_invite[i], contributors_to_invite[i + 1])
        /\ (config = DefaultConfig
            /\ contributors = {S_bob, S_alice, S_dependabot_bot})
              => contributors_to_invite = <<S_alice, S_bob>>

\* skip_bots is false: a bot login that is not excluded is retained next to
\* an excluded one that is dropped.
C11_Witness ==
    /\ Resolved
    /\ ~config.skip_bots
    /\ S_dependabot_bot \in Range(contributors_to_invite)
    /\ S_ci_bot \in contributors \ Range(contributors_to_invite)
    /\ Len(contributors_to_invite) >= 2

\* The commits _get_pr_contributors enumerated.
ResolvedCommits == pull_request[1].commits

\* The lines of the messages of the enumerated commits that start with the
\* exact prefix "Co-authored-by:".
TrailerLines ==
    UNION {{line \in Range(SplitLines(ResolvedCommits[k].message)) :
                StartsWith(line, CoAuthoredBy)} :
           k \in 1..Len(ResolvedCommits)}

\* The logins of the authors of the enumerated commits.
AuthorLogins ==
    {ResolvedCommits[k].author[1].login[1] :
        k \in {j \in 1..Len(ResolvedCommits) :
                  /\ ResolvedCommits[j].author # <<>>
                  /\ ResolvedCommits[j].author[1].login # <<>>
                  /\ ResolvedCommits[j].author[1].login[1] # <<>>}}

\* The first whitespace-delimited token of a trimmed text.
FirstToken(s) ==
    LET stops == {i \in 1..Len(s) : s[i] \in Whitespace}
    IN  IF stops = {} THEN s
        ELSE SubSeq(s, 1, (CHOOSE i \in stops : \A j \in stops : i <= j) - 1)

\* The login C12 states for a trailer line: the first whitespace-delimited
\* token of the trimmed text after the first colon, less one leading "@".
StatedTrailerLogin(line) ==
    LET token == FirstToken(Strip(SplitTail(line, ":")))
    IN  IF token # <<>> /\ Head(token) = "@" THEN Tail(token) ELSE token

\* C12 (as stated): with include_co_authors set, the co-author logins the
\* contributor set holds are exactly, for every line starting with the exact
\* prefix "Co-authored-by:", the first whitespace-delimited token of the
\* trimmed text after the first colon with one leading "@" removed, unless
\* empty; other lines contribute no login.
C12_Original ==
    (Resolved /\ config.include_co_authors) =>
        LET stated == {StatedTrailerLogin(line) : line \in TrailerLines} \ {<<>>}
        IN  /\ stated \subseteq contributors
            /\ contributors \subseteq
                  {pull_request[1].user.login} \cup AuthorLogins \cup stated

\* The text l occurs in the text s.
OccursIn(l, s) ==
    \E i \in 1..(Len(s) - Len(l) + 1) : SubSeq(s, i, i + Len(l) - 1) = l

\* The commit has an author with the login l, or a "Co-authored-by:" line
\* in which l occurs.
MayAdd(commit, l) ==
    \/ /\ commit.author # <<>>
       /\ commit.author[1].login = <<l>>
    \/ \E line \in Range(SplitLines(commit.message)) :
            StartsWith(line, CoAuthoredBy) /\ OccursIn(l, line)

\* C13: once the commits are enumerated, contributor resolution has not
\* failed whatever the commits; the set contains the login of the author of
\* the pull request; every other login in it is the login of the author of a
\* commit or comes from a "Co-authored-by:" line of a commit, so a commit
\* with no author, an author with no login or a message with no such line
\* adds nothing; no empty login is in the set.
C13_ResolutionTotal ==
    Resolved =>
        /\ LastCall.op = "get_commits" => pc # "failed" /\ error = <<>>
        /\ pull_request[1].user.login \in contributors
        /\ <<>> \notin contributors
        /\ \A l \in contributors \ {pull_request[1].user.login} :
              \E k \in 1..Len(ResolvedCommits) : MayAdd(ResolvedCommits[k], l)

\* An author without login and a commit with neither author nor trailer:
\* the set is the author of the pull request alone.
C13_Witness ==
    /\ Resolved
    /\ ResolvedCommits = <<C_nologin, C_plain>>
    /\ config.include_co_authors
    /\ contributors = {pull_request[1].user.login}

\* The permutations of 1..n.
Permutations(n) ==
    {f \in [1..n -> 1..n] : \A i, j \in 1..n : f[i] = f[j] => i = j}

\* The pull request with its commits enumerated in the order f.
Reordered(pr, f) ==
    [pr EXCEPT !.commits = [i \in 1..Len(pr.commits) |-> pr.commits[f[i]]]]

\* C14: _get_pr_contributors run again over the located pull request, with
\* its commits in any order (the order of the first run included), yields
\* the contributor set the run resolved.
C14_OrderIndependent ==
    Resolved =>
        \A f \in Permutations(Len(ResolvedCommits)) :
            GetPrContributors(Reordered(pull_request[1], f), config) = contributors

\* Two commits that add different logins, both in the set.
C14_Witness ==
    /\ Resolved
    /\ ResolvedCommits = <<C_alice, C_carol>>
    /\ config.include_co_authors
    /\ {S_alice, S_carol} \subseteq contributors
    /\ Cardinality(Permutations(Len(ResolvedCommits))) = 2

-----------------------------------------------------------------------------
(* The remote lookups of the invitation step.                              *)

\* The lookups of a named remote entity.
EntityLookups == {"get_organization", "get_team_by_slug", "get_user"}

\* C15: a failed lookup of a user, a team or an organization is the last
\* remote call of the run, which has failed with the very exception the
\* lookup raised (not wrapped into the invitation error, not tolerated,
\* whatever its status); no invite request is issued for the login whose
\* user lookup failed.
C15_LookupFailureAborts ==
    \A i \in 1..Len(calls) :
        (calls[i].op \in EntityLookups /\ calls[i].raised # <<>>) =>
            /\ i = Len(calls)
            /\ pc = "failed"
            /\ error = calls[i].raised
            /\ calls[i].op = "get_user" =>
                  \A j \in 1..Len(calls) :
                      calls[j].op = "invite_user" => calls[j].arg # calls[i].arg

\* The user lookup of a later login fails with status 422 after an invite
\* request went out, and logins are left.
C15_Witness ==
    /\ calls # <<>>
    /\ LastCall.op = "get_user"
    /\ LastCall.raised # <<>>
    /\ LastCall.raised[1].status = 422
    /\ HasCall("invite_user")
    /\ idx < Len(contributors_to_invite)
    /\ pc = "failed"

\* C16: every invite request carries the user looked up from its login and
\* the configured role; with team_slug set it carries a team list holding
\* exactly the team of that slug, and with team_slug unset it carries no
\* team list and the run performs no team lookup.
C16_InviteArguments ==
    /\ \A i \in 1..Len(calls) :
          calls[i].op = "invite_user" =>
              /\ calls[i].user = <<[login |-> calls[i].arg]>>
              /\ calls[i].role = config.role
              /\ calls[i].teams =
                    IF TruthyName(config.team_slug)
                    THEN << <<[slug |-> config.team_slug[1]]>> >>
                    ELSE <<>>
    /\ ~TruthyName(config.team_slug) => ~HasCall("get_team_by_slug")

\* Two invite requests of a run with a team and a non-default role.
C16_Witness ==
    /\ Len(InviteCalls) >= 2
    /\ TruthyName(config.team_slug)
    /\ config.role = "admin"
    /\ InviteCalls[1].arg # InviteCalls[2].arg

\* The number of remote calls op issued so far.
CallCount(op) == Len(CallsOf(calls, op))

\* C17: a run fetches the pull request at most once and looks up the
\* organization and the team at most once each, however many logins it
\* invites.
C17_ResolvedOnce ==
    /\ CallCount("get_pull") <= 1
    /\ CallCount("get_organization") <= 1
    /\ CallCount("get_team_by_slug") <= 1

\* Three logins invited after one fetch of the pull request and one lookup
\* of the organization and of the team.
C17_Witness ==
    /\ Len(InviteCalls) = 3
    /\ CallCount("get_pull") = 1
    /\ CallCount("get_organization") = 1
    /\ CallCount("get_team_by_slug") = 1

\* C18: every login a user lookup or an invite request is issued for is in
\* the contributor set resolved from the pull request, is not in
\* exclude_users and, under skip_bots, does not end with "[bot]"; with the
\* default configuration it is none of dependabot, dependabot[bot],
\* dependabot-preview and dependabot-preview[bot].
C18_ExclusionSafety ==
    \A i \in 1..Len(calls) :
        calls[i].op \in {"get_user", "invite_user"} =>
            /\ calls[i].arg \in contributors
            /\ calls[i].arg \notin Range(config.exclude_users)
            /\ config.skip_bots => ~EndsWith(calls[i].arg, BotSuffix)
            /\ config = DefaultConfig =>
                  calls[i].arg \notin {S_dependabot, S_dependabot_bot,
                                       S_dependabot_preview,
                                       S_dependabot_preview_bot}

\* The default configuration invites a login of a pull request whose
\* contributors include the four dependabot names.
C18_Witness ==
    /\ config = DefaultConfig
    /\ {S_dependabot, S_dependabot_bot, S_dependabot_preview,
        S_dependabot_preview_bot} \subseteq contributors
    /\ HasCall("invite_user")

\* The remote call op was issued and succeeded.
Succeeded(op) ==
    \E i \in 1..Len(calls) : calls[i].op = op /\ calls[i].raised = <<>>

\* C19: a dry run never looks up a user; it has emitted a notice only after
\* the organization and, with team_slug set, the team were looked up with
\* success; a dry run with a non-empty list and no organization to resolve
\* ends with the configuration error, and one whose organization or team
\* lookup fails ends with that error, both with zero notices.
C19_DryRunResolvesTarget ==
    config.dry_run =>
        /\ ~HasCall("get_user")
        /\ notices # <<>> =>
              /\ Succeeded("get_organization") /\ organization # <<>>
              /\ TruthyName(config.team_slug) =>
                    Succeeded("get_team_by_slug") /\ team # <<>>
        /\ (Ended /\ Resolved /\ contributors_to_invite # <<>> /\ NoOrganization) =>
              /\ pc = "failed"
              /\ error = <<AutopubException(NoOrganizationMessage)>>
              /\ notices = <<>>
        /\ (calls # <<>>
            /\ LastCall.op \in {"get_organization", "get_team_by_slug"}
            /\ LastCall.raised # <<>>) =>
              /\ pc = "failed"
              /\ error = LastCall.raised
              /\ notices = <<>>

\* A dry run over two logins or more ends at the failed team lookup.
C19_Witness ==
    /\ config.dry_run
    /\ pc = "failed"
    /\ calls # <<>>
    /\ LastCall.op = "get_team_by_slug"
    /\ LastCall.raised # <<>>
    /\ Len(contributors_to_invite) >= 2
    /\ notices = <<>>

\* _get_pr_number returned None: no key in the event, or no pull request
\* associated with the commit.
LocatedNone ==
    \/ pc # "start" /\ EventKey(event_data).kind = "none"
    \/ pulls = << <<>> >>

\* C20: a run in which no pull request is located, or whose filtered list is
\* empty, ends successfully and looks up neither organization nor team, also
\* without a configured or owning organization and with a team_slug naming
\* no team; the configuration error and a failed team lookup occur only in
\* runs with a located pull request and a non-empty filtered list.
C20_NoOpMasksMisconfiguration ==
    /\ (LocatedNone \/ ResolvedEmpty) =>
          /\ pc = "done"
          /\ error = <<>>
          /\ ~HasCall("get_organization")
          /\ ~HasCall("get_team_by_slug")
    /\ (error = <<AutopubException(NoOrganizationMessage)>>
        \/ HasCall("get_team_by_slug")) =>
          /\ pull_request # <<>>
          /\ Resolved
          /\ contributors_to_invite # <<>>

\* Without any organization and with a team_slug, a run over a located pull
\* request whose filtered list is empty has ended successfully.
C20_Witness ==
    /\ NoOrganization
    /\ TruthyName(config.team_slug)
    /\ pull_request # <<>>
    /\ ResolvedEmpty
    /\ pc = "done"
    /\ error = <<>>

====
